---- MODULE Spec2Model ----
(***************************************************************************)
(* QueryBot: the question -> SQL -> answer pipeline (app/main.py) with the *)
(* SQL agent, validator, executor and table allowlist it drives.           *)
(*                                                                         *)
(* Text is modelled by the features the code inspects.  An identifier of   *)
(* the table-name family is the record [pre, stem, s]: the text            *)
(* "json_" (when pre) followed by stem followed by s letters "s", all in   *)
(* lower case; json_admissions is N(TRUE, "admission", 1).  A statement is *)
(* the record of what it starts with, the forbidden keyword it contains,   *)
(* whether it holds a ';', how its LIMIT and its ORDER BY are set off      *)
(* ("none" when absent, "space" or "newline" for the white space around    *)
(* the keyword), the identifier after FROM and one projected identifier.   *)
(***************************************************************************)
EXTENDS Integers, Sequences, FiniteSets, TLC

\* ------------------------------------------------------------------ bounds
MaxRequests == 2

\* ------------------------------------------------------------ identifiers
N(pre, stem, s) == [pre |-> pre, stem |-> stem, s |-> s]

NoName == N(FALSE, "", 0)

json_admissions == N(TRUE, "admission", 1)
json_patients   == N(TRUE, "patient", 1)
json_providers  == N(TRUE, "provider", 1)
json_transfers  == N(TRUE, "transfer", 1)
json_lab        == N(TRUE, "lab", 0)
json_diagnoses  == N(TRUE, "diagnoses", 0)
json_insurance  == N(TRUE, "insurance", 0)
json_careunits  == N(TRUE, "careunit", 1)
raw_json_data   == N(FALSE, "raw_json_data", 0)
insurance       == N(FALSE, "insurance", 0)
subject_id      == N(FALSE, "subject_id", 0)
created_at      == N(FALSE, "created_at", 0)

\* re.sub(r"\b" + wrong + r"\b", right, ., IGNORECASE) on one identifier:
\* an identifier is a maximal run of word characters, so the pattern
\* matches it only as a whole.
ReSub(wrong, right, n) == IF n = wrong THEN right ELSE n

\* str.replace(wrong, right) on one identifier, for a key that starts with
\* "json_": the key occurs inside the identifier when the identifier has
\* the prefix, the same stem and at least as many trailing "s"; the
\* letters after the occurrence are kept.
StrReplace(wrong, right, n) ==
    IF n.pre = wrong.pre /\ n.stem = wrong.stem /\ n.s >= wrong.s
    THEN N(right.pre, right.stem, (n.s - wrong.s) + right.s)
    ELSE n

RECURSIVE ApplyReSub(_, _, _)
ApplyReSub(maps, i, n) ==
    IF i > Len(maps) THEN n
    ELSE ApplyReSub(maps, i + 1, ReSub(maps[i][1], maps[i][2], n))

RECURSIVE ApplyStrReplace(_, _, _)
ApplyStrReplace(maps, i, n) ==
    IF i > Len(maps) THEN n
    ELSE ApplyStrReplace(maps, i + 1, StrReplace(maps[i][1], maps[i][2], n))

\* dict.get(n, n) over a sequence of <<key, value>> pairs with distinct keys
Lookup(maps, n) ==
    IF \E i \in 1..Len(maps) : maps[i][1] = n
    THEN maps[CHOOSE i \in 1..Len(maps) : maps[i][1] = n][2]
    ELSE n

HasKey(maps, n) == \E i \in 1..Len(maps) : maps[i][1] = n

\* ------------------------------------------------------------- statements
Stmt(head, kw, semi, limit, order, tbl, col) ==
    [head |-> head, kw |-> kw, semi |-> semi, limit |-> limit,
     order |-> order, tbl |-> tbl, col |-> col]

EmptySql == Stmt("", "none", FALSE, "none", "none", NoName, NoName)

Select(tbl) == Stmt("select", "none", FALSE, "none", "none", tbl, NoName)

\* the keywords an identifier holds as a substring
EmbeddedKeywords(n) == IF n.stem = "created_at" THEN {"create"} ELSE {}

\* the words a statement contains, as far as the keyword scans can tell:
\* the scans are substring tests, so a keyword inside an identifier counts
Words(sql) ==
    ({sql.head, sql.kw} \ {"", "none"})
    \cup EmbeddedKeywords(sql.tbl) \cup EmbeddedKeywords(sql.col)

StartsWithSelect(sql) == sql.head = "select"

\* app/main.py _normalize_sql_table_names
main_mappings ==
    << <<N(TRUE, "admission", 2), json_admissions>>,
       <<N(TRUE, "admission", 0), json_admissions>>,
       <<N(TRUE, "patient", 0), json_patients>>,
       <<N(TRUE, "provider", 0), json_providers>>,
       <<N(TRUE, "transfer", 0), json_transfers>>,
       <<N(TRUE, "careunit", 0), json_careunits>>,
       <<N(TRUE, "lab", 1), json_lab>>,
       <<N(TRUE, "diagnosis", 0), json_diagnoses>>,
       <<N(TRUE, "insurance", 1), json_insurance>>,
       <<N(FALSE, "admission", 1), json_admissions>>,
       <<N(FALSE, "patient", 1), json_patients>>,
       <<N(FALSE, "provider", 1), json_providers>>,
       <<N(FALSE, "transfer", 1), json_transfers>>,
       <<N(FALSE, "careunit", 1), json_careunits>>,
       <<N(FALSE, "diagnoses", 0), json_diagnoses>>,
       <<N(FALSE, "insurance", 0), json_insurance>>,
       <<N(FALSE, "lab", 0), json_lab>> >>

normalize_ident(n) == ApplyReSub(main_mappings, 1, n)

normalize_sql_table_names(sql) ==
    IF sql = EmptySql THEN sql
    ELSE [sql EXCEPT !.tbl = normalize_ident(sql.tbl),
                     !.col = normalize_ident(sql.col)]

\* app/main.py typo_normalizations, applied with str.replace
typo_normalizations ==
    << <<N(TRUE, "admission", 2), json_admissions>>,
       <<N(TRUE, "admission", 0), json_admissions>>,
       <<N(TRUE, "patient", 2), json_patients>>,
       <<N(TRUE, "patient", 0), json_patients>>,
       <<N(TRUE, "provider", 0), json_providers>>,
       <<N(TRUE, "transfer", 0), json_transfers>>,
       <<N(TRUE, "careunit", 0), json_careunits>>,
       <<N(TRUE, "lab", 1), json_lab>>,
       <<N(TRUE, "diagnosis", 0), json_diagnoses>>,
       <<N(TRUE, "insurance", 1), json_insurance>>,
       <<json_insurance, insurance>> >>

typo_replace_ident(n) == ApplyStrReplace(typo_normalizations, 1, n)

typo_replace(sql) ==
    [sql EXCEPT !.tbl = typo_replace_ident(sql.tbl),
                !.col = typo_replace_ident(sql.col)]

\* ---------------------------------------------------------------- datastore
\* the tables of the deployed schema: the JSON tables of the loader, the
\* tables the default allowlist names, and the loader's raw backup table
DbTables ==
    {json_patients, json_admissions, json_providers, json_transfers,
     json_lab, json_diagnoses, json_insurance, json_careunits, raw_json_data}

DbColumns(t) ==
    IF t = json_admissions THEN {insurance, subject_id}
    ELSE IF t = json_insurance THEN {insurance}
    ELSE IF t \in {json_patients, json_transfers} THEN {subject_id}
    ELSE {}

\* sqlite3 prepares the statement: "no such table" / "no such column"
DbError(sql) ==
    IF sql.tbl # NoName /\ sql.tbl \notin DbTables THEN "no such table"
    ELSE IF sql.col # NoName /\ sql.col \notin DbColumns(sql.tbl)
         THEN "no such column"
    ELSE "None"

\* ---------------------------------------------------------------- validator
FORBIDDEN_KEYWORDS_NoLate ==
    {"insert", "update", "delete", "drop", "alter", "create", "attach",
     "pragma", "vacuum"}

FORBIDDEN_KEYWORDS ==
    {"insert", "update", "delete", "drop", "alter", "create", "attach",
     "pragma", "vacuum", "truncate", "replace"}

validator_typo_mappings ==
    << <<N(TRUE, "admission", 0), json_admissions>>,
       <<N(TRUE, "admission", 2), json_admissions>>,
       <<N(TRUE, "patient", 0), json_patients>>,
       <<N(TRUE, "provider", 0), json_providers>>,
       <<N(TRUE, "transfer", 0), json_transfers>>,
       <<N(TRUE, "careunit", 0), json_careunits>>,
       <<N(TRUE, "lab", 1), json_lab>>,
       <<N(TRUE, "diagnosis", 0), json_diagnoses>>,
       <<N(TRUE, "insurance", 1), json_insurance>> >>

normalize_typo_ident(n) == ApplyReSub(validator_typo_mappings, 1, n)

normalize_table_typos(sql) ==
    [sql EXCEPT !.tbl = normalize_typo_ident(sql.tbl),
                !.col = normalize_typo_ident(sql.col)]

StaticError_SeparatorFirst(nsql) ==
    IF nsql.semi THEN "Multiple SQL statements are not allowed."
    ELSE IF ~StartsWithSelect(nsql) THEN "Only SELECT queries are allowed."
    ELSE IF Words(nsql) \cap FORBIDDEN_KEYWORDS # {}
         THEN "Forbidden SQL keywords detected."
    ELSE IF nsql.limit = "space" /\ nsql.order # "space"
         THEN "LIMIT without ORDER BY is not allowed."
    ELSE "None"

\* checks 1 to 4 of validate_sql on the normalized statement; "None" when
\* all four pass.  " limit " is looked for in the statement padded with a
\* space on each side, " order by " in the statement itself.
StaticError(nsql) ==
    IF ~StartsWithSelect(nsql) THEN "Only SELECT queries are allowed."
    ELSE IF Words(nsql) \cap FORBIDDEN_KEYWORDS # {}
         THEN "Forbidden SQL keywords detected."
    ELSE IF nsql.semi THEN "Multiple SQL statements are not allowed."
    ELSE IF nsql.limit = "space" /\ nsql.order # "space"
         THEN "LIMIT without ORDER BY is not allowed."
    ELSE "None"

\* validate_sql(conn, sql); fault is a datastore error that does not come
\* from the schema (sqlite3.Error raised by cursor.execute).  sent is what
\* reached the datastore.
validate_sql(sql, fault) ==
    LET nsql == normalize_table_typos(sql)
        serr == StaticError(nsql)
        derr == IF DbError(nsql) # "None" THEN DbError(nsql)
                ELSE IF fault THEN "database error" ELSE "None"
    IN  IF serr # "None"
        THEN [is_valid |-> FALSE, error |-> serr, sent |-> {}]
        ELSE IF derr # "None"
        THEN [is_valid |-> FALSE, error |-> derr,
              sent |-> {[kind |-> "explain", sql |-> nsql]}]
        ELSE [is_valid |-> TRUE, error |-> "None",
              sent |-> {[kind |-> "explain", sql |-> nsql],
                        [kind |-> "probe", sql |-> nsql]}]

\* an argument of a direct call: a str holding a statement, or an object
\* that is not a str (None, a number, bytes)
StrArg(sql) == [is_str |-> TRUE, sql |-> sql]

NonStrArg == [is_str |-> FALSE, sql |-> EmptySql]

\* validate_sql(conn, arg) as a call: re.sub in _normalize_table_typos
\* raises TypeError on an argument that is not a str, and only
\* sqlite3.Error is caught around the dry run and the probe
validate_sql_call(arg, fault) ==
    IF ~arg.is_str
    THEN [raised |-> TRUE, is_valid |-> FALSE, error |-> "TypeError",
          sent |-> {}]
    ELSE LET v == validate_sql(arg.sql, fault)
         IN  [raised |-> FALSE, is_valid |-> v.is_valid, error |-> v.error,
              sent |-> v.sent]

\* ----------------------------------------------------------------- executor
FORBIDDEN ==
    {"insert", "update", "delete", "drop", "alter", "create", "attach",
     "pragma", "vacuum"}

is_safe_select(sql) ==
    StartsWithSelect(sql) /\ Words(sql) \cap FORBIDDEN = {}

executor_normalizations ==
    << <<N(TRUE, "admission", 2), json_admissions>>,
       <<N(TRUE, "admission", 0), json_admissions>>,
       <<N(TRUE, "patient", 2), json_patients>>,
       <<N(TRUE, "patient", 0), json_patients>>,
       <<N(TRUE, "provider", 0), json_providers>>,
       <<N(TRUE, "transfer", 0), json_transfers>>,
       <<N(TRUE, "careunit", 0), json_careunits>>,
       <<N(TRUE, "lab", 1), json_lab>>,
       <<N(TRUE, "diagnosis", 0), json_diagnoses>>,
       <<N(TRUE, "insurance", 1), json_insurance>>,
       <<json_insurance, insurance>> >>

executor_fix_ident(n) == ApplyReSub(executor_normalizations, 1, n)

\* execute_sql(conn, sql): raises ValueError before the datastore is
\* touched when the statement is not a safe SELECT, otherwise runs the
\* rewritten statement; fault is a datastore error at run time.
execute_sql(sql, fault) ==
    LET fixed == [sql EXCEPT !.tbl = executor_fix_ident(sql.tbl),
                             !.col = executor_fix_ident(sql.col)]
    IN  IF ~is_safe_select(sql)
        THEN [raised |-> TRUE,
              error |-> "Only safe SELECT queries are allowed.", sent |-> {}]
        ELSE IF DbError(fixed) # "None"
        THEN [raised |-> TRUE, error |-> DbError(fixed),
              sent |-> {[kind |-> "exec", sql |-> fixed]}]
        ELSE IF fault
        THEN [raised |-> TRUE, error |-> "database error",
              sent |-> {[kind |-> "exec", sql |-> fixed]}]
        ELSE [raised |-> FALSE, error |-> "None",
              sent |-> {[kind |-> "exec", sql |-> fixed]}]

\* ---------------------------------------------------------------- allowlist
default_allowed_tables ==
    {json_patients, json_admissions, json_providers, json_transfers,
     json_lab, json_diagnoses, json_insurance, json_careunits}

generic_to_canonical ==
    << <<N(FALSE, "patient", 1), json_patients>>,
       <<N(FALSE, "patient", 0), json_patients>>,
       <<N(FALSE, "admission", 1), json_admissions>>,
       <<N(FALSE, "admission", 0), json_admissions>>,
       <<N(FALSE, "provider", 1), json_providers>>,
       <<N(FALSE, "provider", 0), json_providers>>,
       <<N(FALSE, "transfer", 1), json_transfers>>,
       <<N(FALSE, "transfer", 0), json_transfers>>,
       <<N(FALSE, "lab", 0), json_lab>>,
       <<N(FALSE, "lab", 1), json_lab>>,
       <<N(FALSE, "diagnoses", 0), json_diagnoses>>,
       <<N(FALSE, "diagnosis", 0), json_diagnoses>>,
       <<N(FALSE, "insurance", 0), json_insurance>>,
       <<N(FALSE, "careunit", 1), json_careunits>>,
       <<N(FALSE, "careunit", 0), json_careunits>> >>

typo_to_canonical_Chained ==
    << <<N(TRUE, "admission", 0), json_admissions>>,
       <<N(TRUE, "admission", 2), N(TRUE, "admission", 0)>>,
       <<N(TRUE, "patient", 2), json_patients>>,
       <<N(TRUE, "patient", 0), json_patients>>,
       <<N(TRUE, "provider", 0), json_providers>>,
       <<N(TRUE, "transfer", 0), json_transfers>>,
       <<N(TRUE, "careunit", 0), json_careunits>>,
       <<N(TRUE, "lab", 1), json_lab>>,
       <<N(TRUE, "diagnosis", 0), json_diagnoses>>,
       <<N(TRUE, "insurance", 1), json_insurance>> >>

typo_to_canonical ==
    << <<N(TRUE, "admission", 0), json_admissions>>,
       <<N(TRUE, "admission", 2), json_admissions>>,
       <<N(TRUE, "patient", 2), json_patients>>,
       <<N(TRUE, "patient", 0), json_patients>>,
       <<N(TRUE, "provider", 0), json_providers>>,
       <<N(TRUE, "transfer", 0), json_transfers>>,
       <<N(TRUE, "careunit", 0), json_careunits>>,
       <<N(TRUE, "lab", 1), json_lab>>,
       <<N(TRUE, "diagnosis", 0), json_diagnoses>>,
       <<N(TRUE, "insurance", 1), json_insurance>> >>

\* the name is_table_allowed looks up: typo map, then alias map
canonical_name(n) == Lookup(generic_to_canonical, Lookup(typo_to_canonical, n))

is_table_allowed(n) == canonical_name(n) \in default_allowed_tables

\* _extract_tables_from_sql: the identifiers after FROM / JOIN / UPDATE /
\* INTO / TABLE; a statement of the model has at most the one after FROM
extract_tables_from_sql(sql) == {sql.tbl} \ {NoName}

\* TableAllowlistManager.validate_query on a fresh manager: the verdict,
\* the blocked tables, the suggestions and the blocked_operations it adds
validate_query(sql) ==
    LET tables  == extract_tables_from_sql(sql)
        blocked == {t \in tables : ~is_table_allowed(t)}
        sugg    == {t \in blocked : HasKey(typo_to_canonical, t)
                                    \/ HasKey(generic_to_canonical, t)}
    IN  [is_valid |-> blocked = {},
         error_message |-> IF blocked = {} THEN ""
                           ELSE "Access denied to tables",
         blocked_tables |-> blocked,
         suggestions |-> sugg,
         blocked_operations |->
             {<<"table_access", t>> : t \in blocked}
             \cup (IF blocked = {} THEN {}
                   ELSE {<<"sql_query_blocked", blocked>>})]

\* a table name as a caller writes it: the lower-case name, whether it is
\* written in upper case, and the quotes around it
TableArg(n, upper, quote) == [name |-> n, upper |-> upper, quote |-> quote]

\* table_name.strip().strip('"').strip("'").lower()
normalized_name(arg) == arg.name

\* TableAllowlist.is_table_allowed on an instance with the given
\* allowed_tables: the verdict and what it adds to blocked_operations
is_table_allowed_in(allowed, arg) ==
    LET ok == canonical_name(normalized_name(arg)) \in allowed
    IN  [is_allowed |-> ok,
         added |-> IF ok THEN {} ELSE {<<"table_access", {arg}>>}]

\* TableAllowlist.validate_sql_tables: the extracted names are in upper
\* case
validate_sql_tables(allowed, sql) ==
    LET tables  == {TableArg(t, TRUE, "none") : t \in extract_tables_from_sql(sql)}
        blocked == {t \in tables : ~is_table_allowed_in(allowed, t).is_allowed}
    IN  [is_valid |-> blocked = {},
         allowed_tables |-> tables \ blocked,
         blocked_tables |-> blocked,
         added |-> UNION {is_table_allowed_in(allowed, t).added : t \in tables}
                   \cup (IF blocked = {} THEN {}
                         ELSE {<<"sql_query_blocked", blocked>>})]

\* blocked_operations after a call added its entries
add_blocked_Overwrite(ops, added) == added

add_blocked(ops, added) == ops \cup added

\* TableAllowlist.get_security_info
get_security_info(allowed, ops) ==
    [allowed_tables |-> allowed, blocked_operations |-> ops,
     data_modification_blocked |-> Cardinality(ops) > 0]

\* TableAllowlistManager.validate_query on an allowlist with the given
\* allowed_tables: suggestions holds the wrong->right pairs of the message
validate_query_in(allowed, sql) ==
    LET r    == validate_sql_tables(allowed, sql)
        sugg == {<<t, IF HasKey(typo_to_canonical, normalized_name(t))
                      THEN Lookup(typo_to_canonical, normalized_name(t))
                      ELSE Lookup(generic_to_canonical, normalized_name(t))>> :
                    t \in {b \in r.blocked_tables :
                              \/ HasKey(typo_to_canonical, normalized_name(b))
                              \/ HasKey(generic_to_canonical,
                                        normalized_name(b))}}
    IN  [is_valid |-> r.is_valid,
         error_message |-> IF r.is_valid THEN ""
                           ELSE "Access denied to tables",
         blocked_tables |-> r.blocked_tables,
         suggestions |-> IF r.is_valid THEN {} ELSE sugg,
         added |-> r.added]

\* ------------------------------------------------------------------- inputs
\* a question is the set of phrases of the vocabulary that occur in it;
\* the empty set is the blank question
Questions ==
    {{"count"}, {"sil", "count"}, {"delete", "count"}, {},
     {"count", "john smith", "2019"}}

\* what the completion backend may answer, as the statement the text holds
RawOutputs ==
    {Select(json_admissions), Select(json_patients), Select(json_providers),
     Select(json_insurance), Select(N(FALSE, "admission", 0)),
     Select(raw_json_data),
     Stmt("update", "none", FALSE, "none", "none", json_patients, NoName),
     EmptySql,
     Stmt("select", "none", FALSE, "space", "none", json_admissions, NoName),
     Stmt("select", "replace", FALSE, "none", "none", json_admissions, NoName),
     Stmt("select", "none", FALSE, "none", "none", json_admissions, insurance),
     Stmt("select", "none", TRUE, "none", "none", json_lab, NoName),
     Stmt("select", "none", FALSE, "newline", "none", json_lab, NoName)}

\* a reply of the completion layer: every backend down, or a text
BackendReplies ==
    {[up |-> FALSE, content |-> EmptySql]}
    \cup {[up |-> TRUE, content |-> c] : c \in RawOutputs}

\* ---------------------------------------------------------------- SQL agent
\* SQLAgent._extract_and_clean_sql: the text before the first ';'
extract_and_clean_sql(raw) == [raw EXCEPT !.semi = FALSE]

\* BaseAgent.validate_context: the question text is not blank (max_tokens
\* and temperature are the fixed 300 and 0.1 of the caller)
validate_context(q, guidance) == q # {} \/ guidance # "None"

\* the agent's connection after _execute_agent_logic: try/finally closes it
agent_conn_after_Leaky(raises) == IF raises THEN "open" ELSE "closed"

agent_conn_after(raises) == "closed"

\* generate_sql_with_agent(question + guidance): BaseAgent.execute around
\* SQLAgent._execute_agent_logic.  db_ok: get_connection() succeeds.
generate_sql_with_agent(q, guidance, db_ok, reply) ==
    IF ~validate_context(q, guidance)
    THEN [success |-> FALSE, sql |-> EmptySql,
          error |-> "Invalid agent context", llm_called |-> FALSE,
          conn |-> "none"]
    ELSE IF ~db_ok
    THEN [success |-> FALSE, sql |-> EmptySql,
          error |-> "unable to open database file", llm_called |-> FALSE,
          conn |-> "none"]
    ELSE IF ~reply.up
    THEN [success |-> FALSE, sql |-> EmptySql,
          error |-> "No LLM clients available", llm_called |-> TRUE,
          conn |-> agent_conn_after(TRUE)]
    ELSE [success |-> TRUE, sql |-> extract_and_clean_sql(reply.content),
          error |-> "None", llm_called |-> TRUE,
          conn |-> agent_conn_after(FALSE)]

\* -------------------------------------------------------------- NER filter
\* the spans the entity extractor finds, with the label it gives them
KnownEntities ==
    {[text |-> "john smith", label |-> "PER"],
     [text |-> "2019", label |-> "DATE"]}

DEFAULT_WHITELIST == {"PERSON", "ORG", "LOCATION", "DATE", "TIME", "EVENT"}

DEFAULT_BLACKLIST ==
    {"PERSON", "PER", "GPE", "LOC", "LOCATION", "EMAIL", "PHONE", "CARD",
     "MONEY"}

normalize_label(label) ==
    IF label \in {"GPE", "LOC"} THEN "LOCATION"
    ELSE IF label = "NORP" THEN "GROUP"
    ELSE IF label = "PER" THEN "PERSON"
    ELSE label

extract_entities(q) == {e \in KnownEntities : e.text \in q}

\* the mask that replaces a span, "[LABEL_hash]" in the source
mask_value(label) == "[" \o label \o "]"

\* SpaCyNERProvider.filter_and_deidentify: the text with every blacklisted
\* span masked, and the values of the whitelisted spans
filter_and_deidentify(q) ==
    LET ents == extract_entities(q)
        black == {e \in ents : normalize_label(e.label) \in DEFAULT_BLACKLIST}
        white == {e \in ents : normalize_label(e.label) \in DEFAULT_WHITELIST}
    IN  [sanitized_text |->
             (q \ {e.text : e \in black})
             \cup {mask_value(normalize_label(e.label)) : e \in black},
         desired_entities |-> {e.text : e \in white}]

\* the spans of a question the extractor classifies as sensitive
sensitive_spans(q) ==
    {e.text : e \in {x \in extract_entities(q) :
                        normalize_label(x.label) \in DEFAULT_BLACKLIST}}

\* the two messages SQLAgent._generate_sql_with_ner_rag hands to the
\* completion layer: the question text each one embeds, and the entity
\* block of the schema snippets (absent when the NER retrieval fell back)
agent_messages(q, ner_ok) ==
    LET hints == IF ner_ok THEN filter_and_deidentify(q).desired_entities
                 ELSE {}
    IN  {[role |-> "system", text |-> q, hints |-> hints],
         [role |-> "user", text |-> q, hints |-> {}]}

\* -------------------------------------------------------------- summarizer
\* a reply of the completion layer to the summarization call: down, or an
\* answer with or without a usage block
SummaryReplies ==
    {[up |-> FALSE, has_usage |-> FALSE, total_tokens |-> 0],
     [up |-> TRUE, has_usage |-> FALSE, total_tokens |-> 0],
     [up |-> TRUE, has_usage |-> TRUE, total_tokens |-> 7],
     [up |-> TRUE, has_usage |-> TRUE, total_tokens |-> 9]}

\* summarize_results_with_llm(question, rows): last is the module's
\* LAST_SUMMARY_USAGE["total_tokens"] on entry; usage is what this call's
\* reply reported, 0 when there was no call or it failed
summarize_results(q, rows, reply, last) ==
    IF rows = 0
    THEN [llm_called |-> FALSE, sent |-> {}, usage |-> 0, last_usage |-> last]
    ELSE IF ~reply.up
    THEN [llm_called |-> TRUE, sent |-> {}, usage |-> 0, last_usage |-> last]
    ELSE [llm_called |-> TRUE,
          sent |-> {[role |-> "summary", text |-> q, hints |-> {}]},
          usage |-> IF reply.has_usage THEN reply.total_tokens ELSE 0,
          last_usage |-> IF reply.has_usage THEN reply.total_tokens
                         ELSE last]

\* ------------------------------------------------------------- orchestrator
\* the Turkish phrases of the source, written without diacritics
modification_intent ==
    {"sil", "silmek", "silme", "guncelle", "guncellemek", "ekle", "eklemek",
     "degistir", "degistirmek", "kaldir", "kaldirmak", "temizle",
     "temizlemek"}

has_modification_intent(q) == q \cap modification_intent # {}

ValidationInfo(is_valid, error, sql_safety, was_retried) ==
    [is_valid |-> is_valid, error |-> error, sql_safety |-> sql_safety,
     retried |-> was_retried]

QueryResponse(rsql, answer, validation, success, error) ==
    [sql |-> rsql, answer |-> answer, validation |-> validation,
     success |-> success, error |-> error]

NoResponse ==
    QueryResponse(EmptySql, "", ValidationInfo(FALSE, "None", "unset", FALSE),
                  FALSE, "unset")

blocked_response ==
    QueryResponse(Select(NoName), "This operation is not allowed.",
                  ValidationInfo(TRUE, "None", "BLOCKED_DATA_MODIFICATION",
                                 FALSE),
                  FALSE, "Data modification blocked")

non_select_response(rsql) ==
    QueryResponse(rsql, "Access denied: Only SELECT queries are allowed.",
                  ValidationInfo(FALSE, "Only SELECT queries are allowed.",
                                 "FAILED", FALSE),
                  FALSE, "Only SELECT queries are allowed.")

blocked_by_allowlist(rsql, error_message) ==
    QueryResponse(rsql, "Access denied",
                  ValidationInfo(FALSE, error_message, "FAILED", FALSE),
                  FALSE, error_message)

failed_validation_response(rsql, verror, was_retried) ==
    QueryResponse(rsql, "",
                  ValidationInfo(FALSE, verror, "FAILED", was_retried),
                  FALSE, "SQL validation failed")

\* the except handler's response: str(e) in answer, validation.error, error
error_response_Generic(e) ==
    QueryResponse(EmptySql, "An error occurred",
                  ValidationInfo(FALSE, "Internal error", "FAILED", FALSE),
                  FALSE, "Internal error")

error_response(e) ==
    QueryResponse(EmptySql, "An error occurred: " \o e,
                  ValidationInfo(FALSE, e, "FAILED", FALSE), FALSE, e)

success_response(rsql, vr, was_retried) ==
    QueryResponse(rsql, "summary",
                  ValidationInfo(vr.is_valid, vr.error,
                                 IF vr.is_valid THEN "PASSED" ELSE "FAILED",
                                 was_retried),
                  TRUE, "None")

\* where the pipeline goes after the retry's validation: a second failure
\* returns
after_retry_Again(is_valid) == IF is_valid THEN "execute" ELSE "retry"

after_retry(is_valid) == IF is_valid THEN "execute" ELSE "done"

\* -------------------------------------------------------------------- state
VARIABLES
    pc,                \* position of run_query_pipeline
    reqs,              \* requests started so far in this process
    question,          \* the request's question
    sql,               \* the orchestrator's current statement
    first_sql,         \* the statement of the first attempt, as normalized
    security,          \* verdict of validate_query: "unset", "pass", "fail"
    validation_result, \* the last outcome of validate_sql
    retried,           \* the orchestrator's retried flag
    conn,              \* the orchestrator's connection
    agent_conn,        \* the connection of the agent's last run
    resp,              \* the response returned
    raised,            \* run_query_pipeline raised to its caller
    gen_log,           \* the generator invocations of this request
    llm_calls,         \* completion-layer calls of this request
    db_log,            \* statements that reached the datastore
    exec_args,         \* statements handed to execute_sql
    trace_id,          \* the trace of this request
    active_traces,     \* TraceManager.active_traces
    exec_result,       \* what the final execute_sql did in this request
    llm_messages,      \* messages that reached a completion backend
    LAST_SUMMARY_USAGE, \* answer_summarizer.LAST_SUMMARY_USAGE total_tokens
    summary_usage,     \* tokens this request's summarization call reported
    resp_tokens,       \* the response's tokens.answer_summarization
    v_call,            \* the last direct call of validate_sql
    norm_call,         \* the last table name put through the allowlist maps
    allowed_tables,    \* TableAllowlist.allowed_tables of the instance
    blocked_operations, \* TableAllowlist.blocked_operations of the instance
    al_call,           \* the last call on the allowlist instance
    al_calls,          \* calls made on the allowlist instance
    e_call,            \* the last direct call of execute_sql
    x_call,            \* the direct call of _extract_and_clean_sql
    r_call,            \* the last call of a schema retrieval function
    sql_agent,         \* sql_agent._sql_agent, the global SQLAgent
    ag_call,           \* the last call of get_sql_agent or execute
    ag_calls           \* execute calls made on the global agent

pipeline_vars ==
    <<pc, reqs, question, sql, first_sql, security, validation_result,
      retried, conn, agent_conn, resp, raised, gen_log, llm_calls, db_log,
      exec_args, trace_id, active_traces, exec_result, llm_messages,
      LAST_SUMMARY_USAGE, summary_usage, resp_tokens>>

allowlist_vars == <<allowed_tables, blocked_operations, al_call, al_calls>>

direct_vars == <<e_call, x_call, r_call>>

agent_vars == <<sql_agent, ag_call, ag_calls>>

unit_vars == <<v_call, norm_call, allowlist_vars, direct_vars, agent_vars>>

vars == <<pipeline_vars, unit_vars>>

NoValidation == [is_valid |-> FALSE, error |-> "unset"]

\* execute_sql has not run; rows is the number of rows it returned and
\* gens the generator invocations made before it ran
NoExecution == [status |-> "unset", error |-> "None", rows |-> 0, gens |-> 0]

\* the row counts told apart: no row, some rows
RowCounts == {0, 1}

\* no direct call of validate_sql yet
NoValidatorCall ==
    [called |-> FALSE, arg |-> StrArg(EmptySql), fault |-> FALSE,
     out |-> [raised |-> FALSE, is_valid |-> FALSE, error |-> "unset",
              sent |-> {}]]

\* no name normalized yet
NoNormCall ==
    [called |-> FALSE, arg |-> TableArg(NoName, FALSE, "none"),
     once |-> NoName, twice |-> NoName]

\* no allowlist instance yet
NoAllowlistCall == [op |-> "none"]

\* no direct call of execute_sql yet
NoExecutorCall ==
    [called |-> FALSE, arg |-> EmptySql, fault |-> FALSE,
     out |-> [raised |-> FALSE, error |-> "unset", sent |-> {}]]

\* _extract_and_clean_sql has not been called
NoExtractCall ==
    [called |-> FALSE, raw |-> <<>>, max_sql_length |-> 0, out |-> <<>>]

\* no retrieval function called yet
NoRetrievalCall == [op |-> "none"]

\* _sql_agent = None
NoAgent == [id |-> 0]

\* neither get_sql_agent nor execute called yet
NoAgentCall == [op |-> "none"]

Init ==
    /\ pc = "idle"
    /\ reqs = 0
    /\ question = {}
    /\ sql = EmptySql
    /\ first_sql = EmptySql
    /\ security = "unset"
    /\ validation_result = NoValidation
    /\ retried = FALSE
    /\ conn = "none"
    /\ agent_conn = "none"
    /\ resp = NoResponse
    /\ raised = FALSE
    /\ gen_log = <<>>
    /\ llm_calls = 0
    /\ db_log = {}
    /\ exec_args = {}
    /\ trace_id = 0
    /\ active_traces = {}
    /\ exec_result = NoExecution
    /\ llm_messages = {}
    /\ LAST_SUMMARY_USAGE = 0
    /\ summary_usage = 0
    /\ resp_tokens = 0
    /\ v_call = NoValidatorCall
    /\ norm_call = NoNormCall
    /\ allowed_tables = default_allowed_tables
    /\ blocked_operations = {}
    /\ al_call = NoAllowlistCall
    /\ al_calls = 0
    /\ e_call = NoExecutorCall
    /\ x_call = NoExtractCall
    /\ r_call = NoRetrievalCall
    /\ sql_agent = NoAgent
    /\ ag_call = NoAgentCall
    /\ ag_calls = 0

\* what one generator invocation leaves in the log
GenEntry(q, guidance, reply, r) ==
    [question |-> q, guidance |-> guidance, backend_up |-> reply.up,
     llm_called |-> r.llm_called, success |-> r.success, sql |-> r.sql]

\* run_query_pipeline is entered: the trace is started, the provider and
\* the security manager are fetched
StartRequest ==
    /\ pc \in {"idle", "done"}
    /\ reqs < MaxRequests
    /\ \E q \in Questions : question' = q
    /\ reqs' = reqs + 1
    /\ trace_id' = reqs + 1
    /\ active_traces' = active_traces \cup {reqs + 1}
    /\ pc' = "intent"
    /\ sql' = EmptySql
    /\ first_sql' = EmptySql
    /\ security' = "unset"
    /\ validation_result' = NoValidation
    /\ retried' = FALSE
    /\ conn' = "none"
    /\ agent_conn' = "none"
    /\ resp' = NoResponse
    /\ raised' = FALSE
    /\ gen_log' = <<>>
    /\ llm_calls' = 0
    /\ db_log' = {}
    /\ exec_args' = {}
    /\ exec_result' = NoExecution
    /\ llm_messages' = {}
    /\ summary_usage' = 0
    /\ resp_tokens' = 0
    /\ UNCHANGED LAST_SUMMARY_USAGE
    /\ UNCHANGED unit_vars

\* the scan of the raw question for a data-modification phrase
IntentCheck ==
    /\ pc = "intent"
    /\ IF has_modification_intent(question)
       THEN /\ resp' = blocked_response
            /\ pc' = "done"
       ELSE /\ resp' = resp
            /\ pc' = "connect"
    /\ UNCHANGED <<reqs, question, sql, first_sql, security,
                   validation_result, retried, conn, agent_conn, raised,
                   gen_log, llm_calls, db_log, exec_args, trace_id,
                   active_traces, exec_result, llm_messages,
                   LAST_SUMMARY_USAGE, summary_usage, resp_tokens>>
    /\ UNCHANGED unit_vars

\* conn = provider.get_connection(), before the try block
Connect ==
    /\ pc = "connect"
    /\ \E ok \in BOOLEAN :
        IF ok
        THEN /\ conn' = "open"
             /\ raised' = FALSE
             /\ pc' = "generate"
        ELSE /\ conn' = "none"
             /\ raised' = TRUE
             /\ pc' = "done"
    /\ UNCHANGED <<reqs, question, sql, first_sql, security,
                   validation_result, retried, agent_conn, resp, gen_log,
                   llm_calls, db_log, exec_args, trace_id, active_traces,
                   exec_result, llm_messages, LAST_SUMMARY_USAGE,
                   summary_usage, resp_tokens>>
    /\ UNCHANGED unit_vars

\* the first generation and the normalization right after it
Generate ==
    /\ pc = "generate"
    /\ \E db_ok \in BOOLEAN, reply \in BackendReplies, ner_ok \in BOOLEAN :
        LET r == generate_sql_with_agent(question, "None", db_ok, reply)
            s == normalize_sql_table_names(
                     IF r.success THEN r.sql ELSE EmptySql)
        IN  /\ sql' = s
            /\ first_sql' = s
            /\ gen_log' = Append(gen_log, GenEntry(question, "None", reply, r))
            /\ llm_calls' = llm_calls + (IF r.llm_called THEN 1 ELSE 0)
            /\ llm_messages' =
                   llm_messages
                   \cup (IF r.llm_called /\ reply.up
                         THEN agent_messages(question, ner_ok) ELSE {})
            /\ agent_conn' = r.conn
    /\ pc' = "guard"
    /\ UNCHANGED <<reqs, question, security, validation_result, retried,
                   conn, resp, raised, db_log, exec_args, trace_id,
                   active_traces, exec_result, LAST_SUMMARY_USAGE,
                   summary_usage, resp_tokens>>
    /\ UNCHANGED unit_vars

\* the hard guard: only SELECT statements go on; the return runs finally
HardGuard ==
    /\ pc = "guard"
    /\ IF ~StartsWithSelect(sql)
       THEN /\ resp' = non_select_response(sql)
            /\ conn' = "closed"
            /\ pc' = "done"
       ELSE /\ resp' = resp
            /\ conn' = conn
            /\ pc' = "security"
    /\ UNCHANGED <<reqs, question, sql, first_sql, security,
                   validation_result, retried, agent_conn, raised, gen_log,
                   llm_calls, db_log, exec_args, trace_id, active_traces,
                   exec_result, llm_messages, LAST_SUMMARY_USAGE,
                   summary_usage, resp_tokens>>
    /\ UNCHANGED unit_vars

\* the str.replace pass over the statement, then the allowlist
SecurityCheck ==
    /\ pc = "security"
    /\ LET s == typo_replace(sql)
           v == validate_query(s)
       IN  /\ sql' = s
           /\ IF ~v.is_valid
              THEN /\ security' = "fail"
                   /\ resp' = blocked_by_allowlist(s, v.error_message)
                   /\ conn' = "closed"
                   /\ pc' = "done"
              ELSE /\ security' = "pass"
                   /\ resp' = resp
                   /\ conn' = conn
                   /\ pc' = "validate"
    /\ UNCHANGED <<reqs, question, first_sql, validation_result, retried,
                   agent_conn, raised, gen_log, llm_calls, db_log,
                   exec_args, trace_id, active_traces, exec_result,
                   llm_messages, LAST_SUMMARY_USAGE, summary_usage,
                   resp_tokens>>
    /\ UNCHANGED unit_vars

\* validate_sql on the first attempt
Validate ==
    /\ pc = "validate"
    /\ \E fault \in BOOLEAN :
        LET v == validate_sql(sql, fault)
        IN  /\ validation_result' = [is_valid |-> v.is_valid, error |-> v.error]
            /\ db_log' = db_log \cup v.sent
            /\ pc' = IF v.is_valid THEN "execute" ELSE "retry"
    /\ retried' = FALSE
    /\ UNCHANGED <<reqs, question, sql, first_sql, security, conn,
                   agent_conn, resp, raised, gen_log, llm_calls, exec_args,
                   trace_id, active_traces, exec_result, llm_messages,
                   LAST_SUMMARY_USAGE, summary_usage, resp_tokens>>
    /\ UNCHANGED unit_vars

\* the one-time retry: generation with guidance, normalization,
\* validate_sql, and the return on a second failure
Retry ==
    /\ pc = "retry"
    /\ \E db_ok \in BOOLEAN, reply \in BackendReplies, fault \in BOOLEAN,
          ner_ok \in BOOLEAN :
        LET guidance == validation_result.error
            r == generate_sql_with_agent(question, guidance, db_ok, reply)
            s == IF r.success THEN normalize_sql_table_names(r.sql)
                 ELSE EmptySql
            v == validate_sql(s, fault)
        IN  /\ sql' = s
            /\ gen_log' = Append(gen_log, GenEntry(question, guidance, reply, r))
            /\ llm_calls' = llm_calls + (IF r.llm_called THEN 1 ELSE 0)
            /\ llm_messages' =
                   llm_messages
                   \cup (IF r.llm_called /\ reply.up
                         THEN agent_messages(question, ner_ok) ELSE {})
            /\ agent_conn' = r.conn
            /\ validation_result' = [is_valid |-> v.is_valid, error |-> v.error]
            /\ db_log' = db_log \cup v.sent
            /\ pc' = after_retry(v.is_valid)
            /\ IF v.is_valid
               THEN /\ resp' = resp
                    /\ conn' = conn
               ELSE /\ resp' = failed_validation_response(s, v.error, TRUE)
                    /\ conn' = "closed"
    /\ retried' = TRUE
    /\ UNCHANGED <<reqs, question, first_sql, security, raised, exec_args,
                   trace_id, active_traces, exec_result, LAST_SUMMARY_USAGE,
                   summary_usage, resp_tokens>>
    /\ UNCHANGED unit_vars

\* the last normalization and execute_sql; an exception runs the handler
\* (the trace is ended, the error response is built) and finally
Execute ==
    /\ pc = "execute"
    /\ \E fault \in BOOLEAN, n \in RowCounts :
        LET s == normalize_sql_table_names(sql)
            x == execute_sql(s, fault)
        IN  /\ sql' = s
            /\ exec_args' = exec_args \cup {s}
            /\ db_log' = db_log \cup x.sent
            /\ exec_result' =
                   [status |-> IF x.raised THEN "raised" ELSE "returned",
                    error |-> x.error,
                    rows |-> IF x.raised THEN 0 ELSE n,
                    gens |-> Len(gen_log)]
            /\ IF x.raised
               THEN /\ resp' = error_response(x.error)
                    /\ active_traces' = active_traces \ {trace_id}
                    /\ conn' = "closed"
                    /\ pc' = "done"
               ELSE /\ resp' = resp
                    /\ active_traces' = active_traces
                    /\ conn' = conn
                    /\ pc' = "respond"
    /\ UNCHANGED <<reqs, question, first_sql, security, validation_result,
                   retried, agent_conn, raised, gen_log, llm_calls,
                   trace_id, llm_messages, LAST_SUMMARY_USAGE,
                   summary_usage, resp_tokens>>
    /\ UNCHANGED unit_vars

\* summarization (a completion call when there are rows; its failure is
\* caught), the success response, the end of the trace, and finally
Respond ==
    /\ pc = "respond"
    /\ \E reply \in SummaryReplies :
        LET r == summarize_results(question, exec_result.rows, reply,
                                   LAST_SUMMARY_USAGE)
        IN  /\ llm_calls' = llm_calls + (IF r.llm_called THEN 1 ELSE 0)
            /\ llm_messages' = llm_messages \cup r.sent
            /\ summary_usage' = r.usage
            /\ LAST_SUMMARY_USAGE' = r.last_usage
            /\ resp_tokens' = r.last_usage
    /\ resp' = success_response(sql, validation_result, retried)
    /\ active_traces' = active_traces \ {trace_id}
    /\ conn' = "closed"
    /\ pc' = "done"
    /\ UNCHANGED <<reqs, question, sql, first_sql, security,
                   validation_result, retried, agent_conn, raised, gen_log,
                   db_log, exec_args, trace_id, exec_result>>
    /\ UNCHANGED unit_vars

Next ==
    \/ StartRequest
    \/ IntentCheck
    \/ Connect
    \/ Generate
    \/ HardGuard
    \/ SecurityCheck
    \/ Validate
    \/ Retry
    \/ Execute
    \/ Respond

Spec == Init /\ [][Next]_vars

\* ------------------------------------------------- validate_sql, called directly
\* the statements handed to validate_sql
ValidatorStatements ==
    {Stmt(h, k, semi, l, o, t, c) :
        h \in {"select", "update", ""},
        k \in {"none", "replace"},
        semi \in BOOLEAN,
        l \in {"none", "space", "newline"},
        o \in {"none", "space", "newline"},
        t \in {json_lab, N(FALSE, "admission", 0)},
        c \in {NoName, created_at}}

ValidatorArgs == {StrArg(q) : q \in ValidatorStatements} \cup {NonStrArg}

CallValidateSql ==
    /\ \E arg \in ValidatorArgs, fault \in BOOLEAN :
        v_call' = [called |-> TRUE, arg |-> arg, fault |-> fault,
                   out |-> validate_sql_call(arg, fault)]
    /\ UNCHANGED <<pipeline_vars, direct_vars, agent_vars,
                   norm_call, allowlist_vars>>

NextValidator == CallValidateSql

SpecValidator == Init /\ [][NextValidator]_vars

\* ------------------------------------------------ allowlist name normalization
\* the keys of the two maps
MapKeys ==
    {typo_to_canonical[i][1] : i \in 1..Len(typo_to_canonical)}
    \cup {generic_to_canonical[i][1] : i \in 1..Len(generic_to_canonical)}

\* the names put through the maps: every key, the canonical names and a
\* name no map knows, in each way of writing them
NormalizeArgs ==
    {TableArg(n, u, q) :
        n \in MapKeys \cup default_allowed_tables \cup {raw_json_data},
        u \in BOOLEAN, q \in {"none", "double", "single"}}

\* the lookup of is_table_allowed on a name, and on its own result
NormalizeName ==
    /\ \E arg \in NormalizeArgs :
        LET once == canonical_name(normalized_name(arg))
        IN  norm_call' = [called |-> TRUE, arg |-> arg, once |-> once,
                          twice |-> canonical_name(once)]
    /\ UNCHANGED <<pipeline_vars, direct_vars, agent_vars,
                   v_call, allowlist_vars>>

NextNormalize == NormalizeName

SpecNormalize == Init /\ [][NextNormalize]_vars

\* ------------------------------------------------------- allowlist instance
MaxCalls == 3

patients_tbl   == N(FALSE, "patient", 1)
admissions_tbl == N(FALSE, "admission", 1)
providers_tbl  == N(FALSE, "provider", 1)
admission_tbl  == N(FALSE, "admission", 0)
sensitive_data == N(FALSE, "sensitive_data", 0)

\* allowed_tables of an instance: the default of _load_from_config, the
\* explicit list of the test suite, and a list of some canonical names
AllowedLists ==
    {default_allowed_tables,
     {patients_tbl, admissions_tbl, providers_tbl},
     {json_patients, json_providers}}

TableArgs ==
    {TableArg(patients_tbl, FALSE, "none"),
     TableArg(patients_tbl, TRUE, "none"),
     TableArg(patients_tbl, FALSE, "double"),
     TableArg(admissions_tbl, FALSE, "single"),
     TableArg(json_patients, FALSE, "none"),
     TableArg(sensitive_data, FALSE, "none")}

AllowlistStatements ==
    {Select(admission_tbl), Select(json_patients), Select(sensitive_data),
     Select(N(TRUE, "admission", 0))}

\* TableAllowlist(allowed_tables) / TableAllowlistManager()
Construct ==
    /\ al_call.op = "none"
    /\ \E allowed \in AllowedLists : allowed_tables' = allowed
    /\ blocked_operations' = {}
    /\ al_call' = [op |-> "init"]
    /\ al_calls' = 0
    /\ UNCHANGED <<pipeline_vars, direct_vars, agent_vars,
                   v_call, norm_call>>

CallIsTableAllowed ==
    /\ al_call.op # "none"
    /\ al_calls < MaxCalls
    /\ \E arg \in TableArgs :
        LET r == is_table_allowed_in(allowed_tables, arg)
        IN  /\ al_call' = [op |-> "is_table_allowed", arg |-> arg,
                           result |-> r.is_allowed]
            /\ blocked_operations' = add_blocked(blocked_operations, r.added)
    /\ al_calls' = al_calls + 1
    /\ UNCHANGED <<pipeline_vars, direct_vars, agent_vars,
                   v_call, norm_call, allowed_tables>>

CallValidateSqlTables ==
    /\ al_call.op # "none"
    /\ al_calls < MaxCalls
    /\ \E q \in AllowlistStatements :
        LET r == validate_sql_tables(allowed_tables, q)
        IN  /\ al_call' = [op |-> "validate_sql_tables", arg |-> q,
                           result |-> r.is_valid]
            /\ blocked_operations' = add_blocked(blocked_operations, r.added)
    /\ al_calls' = al_calls + 1
    /\ UNCHANGED <<pipeline_vars, direct_vars, agent_vars,
                   v_call, norm_call, allowed_tables>>

\* TableAllowlistManager.validate_query: validate_sql_tables, the message
\* with its suggestions, then get_security_info
CallValidateQuery ==
    /\ al_call.op # "none"
    /\ al_calls < MaxCalls
    /\ \E q \in AllowlistStatements :
        LET r == validate_query_in(allowed_tables, q)
        IN  /\ al_call' = [op |-> "validate_query", arg |-> q,
                           result |-> [is_valid |-> r.is_valid,
                                       error_message |-> r.error_message,
                                       blocked_tables |-> r.blocked_tables,
                                       suggestions |-> r.suggestions]]
            /\ blocked_operations' = add_blocked(blocked_operations, r.added)
    /\ al_calls' = al_calls + 1
    /\ UNCHANGED <<pipeline_vars, direct_vars, agent_vars,
                   v_call, norm_call, allowed_tables>>

CallGetSecurityInfo ==
    /\ al_call.op # "none"
    /\ al_calls < MaxCalls
    /\ al_call' = [op |-> "get_security_info",
                   result |-> get_security_info(allowed_tables,
                                                blocked_operations)]
    /\ al_calls' = al_calls + 1
    /\ UNCHANGED <<pipeline_vars, direct_vars, agent_vars,
                   v_call, norm_call, allowed_tables,
                   blocked_operations>>

CallResetBlockedOperations ==
    /\ al_call.op # "none"
    /\ al_calls < MaxCalls
    /\ blocked_operations' = {}
    /\ al_call' = [op |-> "reset_blocked_operations"]
    /\ al_calls' = al_calls + 1
    /\ UNCHANGED <<pipeline_vars, direct_vars, agent_vars,
                   v_call, norm_call, allowed_tables>>

NextAllowlist ==
    \/ Construct
    \/ CallIsTableAllowed
    \/ CallValidateSqlTables
    \/ CallValidateQuery
    \/ CallGetSecurityInfo
    \/ CallResetBlockedOperations

SpecAllowlist == Init /\ [][NextAllowlist]_vars

\* ------------------------------------------------- execute_sql, called directly
\* execute_sql(conn, sql) on the statements validate_sql is called with
CallExecuteSql ==
    /\ \E q \in ValidatorStatements, fault \in BOOLEAN :
        e_call' = [called |-> TRUE, arg |-> q, fault |-> fault,
                   out |-> execute_sql(q, fault)]
    /\ UNCHANGED <<pipeline_vars, v_call, norm_call, allowlist_vars,
                   x_call, r_call, agent_vars>>

NextExecutor == CallExecuteSql

SpecExecutor == Init /\ [][NextExecutor]_vars

\* ------------------------------------- _extract_and_clean_sql, called directly
\* a completion text is a sequence of characters; the texts tried are made
\* of at most MaxRawTokens of these pieces: a code fence, the word sql, a
\* whitespace character, a character of a statement, a separator
MaxRawTokens == 4

\* "^" stands for the backquote character
FENCE == <<"^", "^", "^">>

FENCE_SQL == FENCE \o <<"s", "q", "l">>

SEPARATOR == <<";">>

RawTokens == {FENCE, <<"s", "q", "l">>, <<" ">>, <<"x">>, SEPARATOR}

RECURSIVE RawTextsOf(_)
RawTextsOf(n) ==
    IF n = 0 THEN {<<>>}
    ELSE LET shorter == RawTextsOf(n - 1)
         IN  shorter \cup {t \o tok : t \in shorter, tok \in RawTokens}

RawTexts == RawTextsOf(MaxRawTokens)

\* the configured max_sql_length: one that cuts these texts, the default
MaxSqlLengths == {2, 1000}

\* str.startswith, str.endswith, the in operator on str, str.strip
StartsWith(s, p) == Len(s) >= Len(p) /\ SubSeq(s, 1, Len(p)) = p

EndsWith(s, p) ==
    Len(s) >= Len(p) /\ SubSeq(s, Len(s) - Len(p) + 1, Len(s)) = p

Contains(s, p) ==
    \E i \in 1..(Len(s) - Len(p) + 1) : SubSeq(s, i, i + Len(p) - 1) = p

RECURSIVE LStrip(_)
LStrip(s) == IF s # <<>> /\ Head(s) = " " THEN LStrip(Tail(s)) ELSE s

RECURSIVE RStrip(_)
RStrip(s) ==
    IF s # <<>> /\ s[Len(s)] = " " THEN RStrip(SubSeq(s, 1, Len(s) - 1))
    ELSE s

Strip(s) == RStrip(LStrip(s))

\* str.split(';')[0]: the text before the first separator
BeforeSeparator(s) ==
    LET first == CHOOSE i \in 1..Len(s) :
                    /\ s[i] = ";"
                    /\ \A j \in 1..(i - 1) : s[j] # ";"
    IN  SubSeq(s, 1, first - 1)

\* SQLAgent._extract_and_clean_sql(raw_sql) with self.max_sql_length
extract_and_clean_sql_text(raw_sql, max_sql_length) ==
    IF raw_sql = <<>> THEN <<>>
    ELSE LET opened == IF StartsWith(raw_sql, FENCE_SQL)
                       THEN SubSeq(raw_sql, 7, Len(raw_sql))
                       ELSE IF StartsWith(raw_sql, FENCE)
                       THEN SubSeq(raw_sql, 4, Len(raw_sql))
                       ELSE raw_sql
             closed == IF EndsWith(opened, FENCE)
                       THEN SubSeq(opened, 1, Len(opened) - 3)
                       ELSE opened
             stripped == Strip(closed)
             sql_query == IF Contains(stripped, SEPARATOR)
                          THEN Strip(BeforeSeparator(stripped))
                          ELSE stripped
         IN  IF Len(sql_query) > max_sql_length
             THEN SubSeq(sql_query, 1, max_sql_length)
             ELSE sql_query

ExtractAndCleanSql ==
    /\ ~x_call.called
    /\ \E raw \in RawTexts, m \in MaxSqlLengths :
        x_call' = [called |-> TRUE, raw |-> raw, max_sql_length |-> m,
                   out |-> extract_and_clean_sql_text(raw, m)]
    /\ UNCHANGED <<pipeline_vars, v_call, norm_call, allowlist_vars,
                   e_call, r_call, agent_vars>>

NextExtract == ExtractAndCleanSql

SpecExtract == Init /\ [][NextExtract]_vars

\* ------------------------------------------------------- global SQL agent
MaxExecs == 3

\* a config dict is the set of its items; None and {} are the empty set
AgentConfigs ==
    {{},
     {<<"top_k", 5>>, <<"max_sql_length", 2000>>},
     {<<"top_k", 10>>}}

\* dict.get(key, default)
ConfigGet(config, key, default) ==
    IF \E item \in config : item[1] = key
    THEN (CHOOSE item \in config : item[1] = key)[2]
    ELSE default

\* SQLAgent(config): BaseAgent.__init__ then the SQL-specific fields;
\* _execution_times holds one entry per execution, the time abstracted
SQLAgent(config, id) ==
    [id |-> id,
     default_top_k |-> ConfigGet(config, "top_k", 3),
     max_sql_length |-> ConfigGet(config, "max_sql_length", 1000),
     execution_times |-> <<>>,
     success_count |-> 0,
     error_count |-> 0,
     sql_generation_count |-> 0,
     successful_sql_count |-> 0]

\* get_sql_agent(config): the global after the call, which is returned
get_sql_agent(global, config) ==
    IF global = NoAgent THEN SQLAgent(config, 1) ELSE global

update_performance_metrics_SuccessOnly(agent, success) ==
    [agent EXCEPT
        !.execution_times = IF success THEN Append(@, "ms") ELSE @,
        !.success_count = IF success THEN @ + 1 ELSE @]

\* BaseAgent.update_performance_metrics(execution_time_ms, success)
update_performance_metrics(agent, success) ==
    [agent EXCEPT
        !.execution_times = Append(@, "ms"),
        !.success_count = IF success THEN @ + 1 ELSE @,
        !.error_count = IF success THEN @ ELSE @ + 1]

\* the questions of the contexts and the replies of the completion layer
AgentQuestions == {{"count"}, {}}

AgentReplies ==
    {[up |-> FALSE, content |-> EmptySql],
     [up |-> TRUE, content |-> EmptySql],
     [up |-> TRUE, content |-> Select(json_patients)],
     [up |-> TRUE,
      content |-> Stmt("select", "none", TRUE, "none", "none", json_lab,
                       NoName)]}

NoResult == [sql |-> EmptySql, agent_name |-> "None"]

\* SQLAgent._execute_agent_logic(context, trace_id): what it raises or
\* returns, and the agent after it.  db_ok: get_connection() succeeds.
execute_agent_logic(agent, q, db_ok, reply) ==
    IF ~validate_context(q, "None")
    THEN [raised |-> TRUE, error |-> "Invalid agent context",
          result |-> NoResult, agent |-> agent]
    ELSE IF ~db_ok
    THEN [raised |-> TRUE, error |-> "unable to open database file",
          result |-> NoResult, agent |-> agent]
    ELSE IF ~reply.up
    THEN [raised |-> TRUE, error |-> "No LLM clients available",
          result |-> NoResult, agent |-> agent]
    ELSE LET sql_query == extract_and_clean_sql(reply.content)
         IN  [raised |-> FALSE, error |-> "None",
              result |-> [sql |-> sql_query, agent_name |-> "SQLAgent"],
              agent |-> [agent EXCEPT
                  !.sql_generation_count = @ + 1,
                  !.successful_sql_count =
                      IF sql_query # EmptySql THEN @ + 1 ELSE @]]

\* BaseAgent.execute(context): the AgentResponse and the agent after it
execute(agent, q, db_ok, reply) ==
    LET r == execute_agent_logic(agent, q, db_ok, reply)
    IN  IF ~r.raised
        THEN [raised |-> FALSE, success |-> TRUE, result |-> r.result,
              error |-> "None",
              agent |-> update_performance_metrics(r.agent, TRUE)]
        ELSE [raised |-> FALSE, success |-> FALSE, result |-> NoResult,
              error |-> r.error,
              agent |-> update_performance_metrics(r.agent, FALSE)]

GetSqlAgent ==
    /\ \E config \in AgentConfigs :
        LET agent == get_sql_agent(sql_agent, config)
        IN  /\ sql_agent' = agent
            /\ ag_call' = [op |-> "get_sql_agent", config |-> config,
                           global_before |-> sql_agent.id,
                           returned |-> agent]
    /\ UNCHANGED <<pipeline_vars, v_call, norm_call, allowlist_vars,
                   direct_vars, ag_calls>>

AgentExecute ==
    /\ sql_agent # NoAgent
    /\ ag_calls < MaxExecs
    /\ \E q \in AgentQuestions, db_ok \in BOOLEAN, reply \in AgentReplies :
        LET r == execute(sql_agent, q, db_ok, reply)
        IN  /\ sql_agent' = r.agent
            /\ ag_call' = [op |-> "execute", question |-> q,
                           raised |-> r.raised, success |-> r.success,
                           result |-> r.result, error |-> r.error,
                           generation_count_before |->
                               sql_agent.sql_generation_count]
    /\ ag_calls' = ag_calls + 1
    /\ UNCHANGED <<pipeline_vars, v_call, norm_call, allowlist_vars,
                   direct_vars>>

NextAgent == GetSqlAgent \/ AgentExecute

SpecAgent == Init /\ [][NextAgent]_vars

\* --------------------------------------------------------- schema retrieval
MaxTopK == 3

\* the tables of the datastore as sqlite_master and PRAGMA table_info
\* report them: the schema of the application, and an empty datastore
SchemaTables ==
    << [name |-> "json_patients", columns |-> <<"subject_id", "gender">>],
       [name |-> "json_admissions", columns |-> <<"hadm_id", "admittime">>] >>

Schemas == {SchemaTables, <<>>}

\* the identifiers one is a proper part of the other, among the schema's
\* names, the medical keywords and the filter names; the fixed words of a
\* document text (column, table, in, with, columns, the types, primary
\* key) hold none of them
SubstringPairs ==
    {<<"patient", "json_patients">>, <<"admission", "json_admissions">>}

\* the in operator on str
Occurs(needle, name) == needle = name \/ <<needle, name>> \in SubstringPairs

\* a document of _build_schema_docs: names are the identifiers its text
\* holds
ColumnDocs(t) ==
    [i \in 1..Len(t.columns) |->
        [table |-> t.name, column |-> t.columns[i],
         names |-> {t.columns[i], t.name}]]

TableDoc(t) ==
    [table |-> t.name, column |-> "*",
     names |-> {t.name} \cup {t.columns[i] : i \in 1..Len(t.columns)}]

RECURSIVE build_schema_docs(_)
build_schema_docs(tables) ==
    IF tables = <<>> THEN <<>>
    ELSE ColumnDocs(Head(tables)) \o <<TableDoc(Head(tables))>>
         \o build_schema_docs(Tail(tables))

InText(needle, doc) == \E name \in doc.names : Occurs(needle, name)

medical_keywords ==
    {"hasta", "patient", "yatis", "admission", "transfer", "doktor",
     "provider", "yas", "age", "cinsiyet", "gender", "admittime",
     "dischtime", "careunit", "admission_type"}

\* list[:k]
Take(seq, k) == SubSeq(seq, 1, IF k < Len(seq) THEN k ELSE Len(seq))

\* list.sort(key=score, reverse=True): stable, on scores 0..level
RECURSIVE SortedByScore(_, _, _)
SortedByScore(docs, score, level) ==
    IF level < 0 THEN <<>>
    ELSE LET AtLevel(i) == score[i] = level
             here == SelectSeq([i \in 1..Len(docs) |-> i], AtLevel)
         IN  [j \in 1..Len(here) |-> docs[here[j]]]
             \o SortedByScore(docs, score, level - 1)

Snippets(docs, header) ==
    [kind |-> "snippets", docs |-> docs, header |-> header]

Message(text) == [kind |-> text, docs |-> <<>>, header |-> FALSE]

\* get_relevant_schema_snippets(conn, question, top_k); keywords are the
\* medical keywords the question holds
get_relevant_schema_snippets(tables, keywords, top_k) ==
    LET docs == build_schema_docs(tables)
        score == [i \in 1..Len(docs) |->
                    Cardinality({k \in medical_keywords :
                                    k \in keywords /\ InText(k, docs[i])})]
        KeepScored(i) == score[i] > 0
        kept == SelectSeq([i \in 1..Len(docs) |-> i], KeepScored)
        relevant_docs == [j \in 1..Len(kept) |-> docs[kept[j]]]
        relevant_score == [j \in 1..Len(kept) |-> score[kept[j]]]
        top_docs == Take(SortedByScore(relevant_docs, relevant_score,
                                       Cardinality(medical_keywords)),
                         top_k)
    IN  IF docs = <<>> THEN Message("No schema information available.")
        ELSE IF top_docs = <<>> THEN Snippets(Take(docs, top_k), FALSE)
        ELSE Snippets(top_docs, FALSE)

\* how the embedding layer answers: the sentence transformer, the
\* bag-of-words fallback when it cannot be loaded, or an error of encode
EmbeddingBackends == {"model", "bag_of_words", "raise"}

\* the documents an embedding ranks above the others
SimilarityChoices == {{}, {"gender"}, {"*"}}

\* the ranking by cosine similarity followed by [:top_k]
TopBySimilarity(docs, near, top_k) ==
    LET similarity == [i \in 1..Len(docs) |->
                          IF docs[i].column \in near THEN 1 ELSE 0]
    IN  Take(SortedByScore(docs, similarity, 1), top_k)

\* get_hybrid_relevant_schema_snippets(conn, question, top_k)
get_hybrid_relevant_schema_snippets(tables, keywords, top_k, backend, near) ==
    LET docs == build_schema_docs(tables)
    IN  IF docs = <<>> THEN Message("No schema information available.")
        ELSE IF backend = "raise"
        THEN get_relevant_schema_snippets(tables, keywords, top_k)
        ELSE Snippets(TopBySimilarity(docs, near, top_k), FALSE)

\* entity_mapping of _create_metadata_filters_from_entities
entity_mapping ==
    [PERSON |->
        [columns |-> {"subject_id", "admit_provider_id",
                      "discharge_provider_id"},
         tables |-> <<"json_patients", "json_admissions", "json_providers">>,
         priority |-> 1],
     ORG |->
        [columns |-> {"admission_location", "discharge_location",
                      "careunit"},
         tables |-> <<"json_admissions", "json_transfers">>, priority |-> 2],
     GPE |->
        [columns |-> {"admission_location", "discharge_location"},
         tables |-> <<"json_admissions">>, priority |-> 3],
     DATE |->
        [columns |-> {"admittime", "dischtime", "deathtime", "intime",
                      "outtime"},
         tables |-> <<"json_admissions", "json_transfers">>, priority |-> 2],
     TIME |->
        [columns |-> {"admittime", "dischtime", "intime", "outtime"},
         tables |-> <<"json_admissions", "json_transfers">>, priority |-> 2],
     CARDINAL |->
        [columns |-> {"age", "anchor_age", "hospital_expire_flag"},
         tables |-> <<"json_patients", "json_admissions">>, priority |-> 1],
     ORDINAL |->
        [columns |-> {"admission_type", "insurance", "marital_status"},
         tables |-> <<"json_admissions">>, priority |-> 2],
     MONEY |->
        [columns |-> {"insurance"},
         tables |-> <<"json_admissions">>, priority |-> 3],
     PERCENT |->
        [columns |-> {"hospital_expire_flag"},
         tables |-> <<"json_admissions">>, priority |-> 3],
     SUBJECT_ID |->
        [columns |-> {"subject_id"},
         tables |-> <<"json_patients", "json_admissions", "json_transfers">>,
         priority |-> 1],
     HADM_ID |->
        [columns |-> {"hadm_id"},
         tables |-> <<"json_admissions", "json_transfers">>, priority |-> 1],
     PROVIDER_ID |->
        [columns |-> {"admit_provider_id", "discharge_provider_id"},
         tables |-> <<"json_admissions", "json_providers">>, priority |-> 2],
     DOMAIN_TERM |->
        [columns |-> {"admission_type", "careunit", "insurance"},
         tables |-> <<"json_admissions", "json_transfers">>, priority |-> 2]]

\* table_priority: each table once, with the priority of the first
\* entity that named it
RECURSIVE AddTables(_, _, _)
AddTables(table_priority, tables, priority) ==
    IF tables = <<>> THEN table_priority
    ELSE LET known == \E i \in 1..Len(table_priority) :
                          table_priority[i][1] = Head(tables)
         IN  AddTables(IF known THEN table_priority
                       ELSE Append(table_priority,
                                   <<Head(tables), priority>>),
                       Tail(tables), priority)

RECURSIVE TablePriority(_)
TablePriority(labels) ==
    IF labels = <<>> THEN <<>>
    ELSE LET before == TablePriority(SubSeq(labels, 1, Len(labels) - 1))
             label == labels[Len(labels)]
         IN  IF label \in DOMAIN entity_mapping
             THEN AddTables(before, entity_mapping[label].tables,
                            entity_mapping[label].priority)
             ELSE before

\* table_priority.sort(key=priority), stable, on priorities 1..3
RECURSIVE ByPriority(_, _)
ByPriority(table_priority, level) ==
    IF level > 3 THEN <<>>
    ELSE LET AtLevel(t) == t[2] = level
         IN  SelectSeq(table_priority, AtLevel)
             \o ByPriority(table_priority, level + 1)

\* _create_metadata_filters_from_entities(entities), entities given by
\* their labels: no filters for no entity; otherwise the column filters,
\* the three tables of the highest priority, and the entity context
create_metadata_filters_from_entities(labels) ==
    LET mapped == {labels[i] : i \in 1..Len(labels)} \cap DOMAIN entity_mapping
        top == Take(ByPriority(TablePriority(labels), 1), 3)
    IN  [present |-> labels # <<>>,
         columns |-> UNION {entity_mapping[l].columns : l \in mapped},
         tables |-> {top[i][1] : i \in 1..Len(top)}]

\* _apply_metadata_filters(docs, filters): the documents that match at
\* least half of the criteria, the best matches first
apply_metadata_filters(docs, filters) ==
    LET total_checks == Cardinality(filters.columns)
                        + (IF filters.tables # {} THEN 1 ELSE 0)
        match_score ==
            [i \in 1..Len(docs) |->
                (IF \E t \in filters.tables : Occurs(t, docs[i].table)
                 THEN 1 ELSE 0)
                + Cardinality({c \in filters.columns : InText(c, docs[i])})]
        Matches(i) == total_checks > 0 /\ 2 * match_score[i] >= total_checks
        kept == SelectSeq([i \in 1..Len(docs) |-> i], Matches)
    IN  SortedByScore([j \in 1..Len(kept) |-> docs[kept[j]]],
                      [j \in 1..Len(kept) |-> match_score[kept[j]]],
                      total_checks)

\* get_ner_enhanced_hybrid_schema_snippets(conn, question, top_k,
\* language_code).  ner_ok: the NER provider loads and runs; labels are
\* the labels of its desired entities.
get_ner_enhanced_hybrid_schema_snippets(tables, keywords, labels, top_k, ner_ok, backend, near) ==
    LET all_docs == build_schema_docs(tables)
        metadata_filters == create_metadata_filters_from_entities(labels)
        filtered_docs == apply_metadata_filters(all_docs, metadata_filters)
        docs == IF metadata_filters.present /\ filtered_docs # <<>>
                THEN filtered_docs ELSE all_docs
    IN  IF ~ner_ok \/ (all_docs # <<>> /\ backend = "raise")
        THEN get_hybrid_relevant_schema_snippets(tables, keywords, top_k,
                                                 backend, near)
        ELSE IF all_docs = <<>>
        THEN Message("No schema information available.")
        ELSE Snippets(TopBySimilarity(docs, near, top_k), labels # <<>>)

\* the questions: the medical keywords they hold and the labels of the
\* entities the NER provider finds in them
KeywordSets == {{}, {"hasta"}, {"gender"}, {"patient", "admittime"}}

EntityLabelLists ==
    {<<>>, <<"PERSON">>, <<"DATE">>, <<"SUBJECT_ID">>, <<"LOCATION">>,
     <<"DATE", "PERSON">>}

CallKeywordRetrieval ==
    /\ r_call.op = "none"
    /\ \E tables \in Schemas, keywords \in KeywordSets, top_k \in 0..MaxTopK :
        r_call' = [op |-> "keyword", tables |-> tables,
                   keywords |-> keywords, top_k |-> top_k,
                   out |-> get_relevant_schema_snippets(tables, keywords,
                                                        top_k)]
    /\ UNCHANGED <<pipeline_vars, v_call, norm_call, allowlist_vars,
                   e_call, x_call, agent_vars>>

CallHybridRetrieval ==
    /\ r_call.op = "none"
    /\ \E tables \in Schemas, keywords \in KeywordSets, top_k \in 0..MaxTopK,
          backend \in EmbeddingBackends, near \in SimilarityChoices :
        r_call' = [op |-> "hybrid", tables |-> tables,
                   keywords |-> keywords, top_k |-> top_k,
                   backend |-> backend, near |-> near,
                   out |-> get_hybrid_relevant_schema_snippets(
                               tables, keywords, top_k, backend, near)]
    /\ UNCHANGED <<pipeline_vars, v_call, norm_call, allowlist_vars,
                   e_call, x_call, agent_vars>>

CallNerRetrieval ==
    /\ r_call.op = "none"
    /\ \E tables \in Schemas, keywords \in KeywordSets, top_k \in 0..MaxTopK,
          labels \in EntityLabelLists, ner_ok \in BOOLEAN,
          backend \in EmbeddingBackends, near \in SimilarityChoices :
        r_call' = [op |-> "ner", tables |-> tables,
                   keywords |-> keywords, top_k |-> top_k,
                   labels |-> labels, ner_ok |-> ner_ok,
                   backend |-> backend, near |-> near,
                   out |-> get_ner_enhanced_hybrid_schema_snippets(
                               tables, keywords, labels, top_k, ner_ok,
                               backend, near)]
    /\ UNCHANGED <<pipeline_vars, v_call, norm_call, allowlist_vars,
                   e_call, x_call, agent_vars>>

NextRetrieval ==
    \/ CallKeywordRetrieval
    \/ CallHybridRetrieval
    \/ CallNerRetrieval

SpecRetrieval == Init /\ [][NextRetrieval]_vars

\* ------------------------------------------------------------------- claims
\* the forbidden-keyword set as the specification lists it
SpecForbiddenKeywords ==
    {"insert", "update", "delete", "drop", "alter", "create", "truncate",
     "replace", "attach", "pragma", "vacuum"}

\* the modification phrases of both languages
BilingualIntentPhrases == modification_intent \cup {"delete", "update", "insert"}

\* C1: for every request the SQL generator is invoked at most twice, on
\* every path.
C1_GeneratorAtMostTwice == Len(gen_log) <= 2

C1_Witness ==
    /\ pc = "done"
    /\ Len(gen_log) = 2
    /\ ~resp.success
    /\ resp.validation.retried

\* C2: in every response, retried is true exactly when the generator was
\* invoked twice for the request.
C2_RetriedIffTwoAttempts ==
    (pc = "done" /\ ~raised) =>
        (resp.validation.retried <=> Len(gen_log) = 2)

\* C3: every statement handed to execute_sql references only tables the
\* allowlist accepts, the statement of a retry included.
C3_ExecutedOnlyIfAllowlisted ==
    \A s \in exec_args : validate_query(s).is_valid

\* C4: every statement that reaches the datastore, as EXPLAIN, probe or
\* final execution, starts with SELECT, holds no forbidden keyword and no
\* statement separator.
C4_OnlyReadOnlyReachesDatastore ==
    \A e \in db_log :
        /\ StartsWithSelect(e.sql)
        /\ Words(e.sql) \cap SpecForbiddenKeywords = {}
        /\ ~e.sql.semi

C4_Witness ==
    /\ pc = "done"
    /\ resp.success
    /\ \E e \in db_log : e.kind = "exec"
    /\ \E e \in db_log : e.kind = "probe"
    /\ \E i \in DOMAIN gen_log : Words(gen_log[i].sql) \cap SpecForbiddenKeywords # {}

\* C5: a question with a data-modification phrase of either language never
\* reaches the generator or the completion layer, and its response is
\* success=false with sql_safety BLOCKED_DATA_MODIFICATION.
C5_IntentBlocksBothLanguages ==
    (pc # "idle" /\ question \cap BilingualIntentPhrases # {}) =>
        /\ gen_log = <<>>
        /\ llm_calls = 0
        /\ pc = "done" =>
             /\ ~raised
             /\ ~resp.success
             /\ resp.validation.sql_safety = "BLOCKED_DATA_MODIFICATION"

\* C6: when the allowlist rejects the first attempt, the generator is
\* invoked once more with the allowlist error as guidance before any
\* response is returned, and the response has retried=true.
C6_SecurityRejectionRetried ==
    (pc = "done" /\ security = "fail") =>
        /\ Len(gen_log) = 2
        /\ gen_log[2].guidance = "Access denied to tables"
        /\ resp.validation.retried

\* C7: when the first attempt fails one of the validator's checks (check 1
\* included), the generator is invoked once more with the validator's
\* error as guidance before the pipeline returns; a second failure is
\* returned with retried=true and the error of the second attempt.
C7_ValidatorFailureRetried ==
    (/\ pc = "done"
     /\ ~raised
     /\ Len(gen_log) >= 1
     /\ security # "fail"
     /\ StaticError(first_sql) # "None") =>
        /\ Len(gen_log) = 2
        /\ gen_log[2].guidance = StaticError(first_sql)
        /\ ~validation_result.is_valid =>
             /\ resp.validation.retried
             /\ resp.validation.error = validation_result.error

C9_NeverRaises ==
    /\ ~raised
    /\ (pc = "done" /\ ~resp.success) =>
         /\ resp.answer # "" \/ resp.error # "None"
         /\ resp.validation.sql_safety # "unset"

\* C10: a generation whose completion backends all fail still succeeds
\* with a statement that starts with SELECT.
C10_FallbackOnBackendFailure ==
    \A i \in DOMAIN gen_log :
        (gen_log[i].llm_called /\ ~gen_log[i].backend_up) =>
            /\ gen_log[i].success
            /\ StartsWithSelect(gen_log[i].sql)

C12_NoSensitiveSpanForwarded ==
    \A m \in llm_messages :
        (m.text \cup m.hints) \cap sensitive_spans(question) = {}

\* C13: the response's tokens.answer_summarization is the token usage of
\* this request's summarization call, and 0 when the request made no such
\* call or the call failed, whatever earlier requests did.
C13_SummaryTokensOfThisRequest ==
    (pc = "done" /\ resp.success) => resp_tokens = summary_usage

\* C14: validate_sql never raises: for every argument, a statement that
\* is empty or holds several statements and an object that is not a str
\* included, and every datastore failure, it returns an outcome.
C14_ValidatorNeverRaises == v_call.called => ~v_call.out.raised

\* C15: a statement that holds a keyword of the forbidden set anywhere,
\* inside an identifier included, is never valid.
C15_ForbiddenKeywordInvalid ==
    (/\ v_call.called
     /\ v_call.arg.is_str
     /\ Words(v_call.arg.sql) \cap SpecForbiddenKeywords # {}) =>
        /\ ~v_call.out.raised
        /\ ~v_call.out.is_valid

C15_Witness ==
    /\ v_call.called
    /\ v_call.arg.is_str
    /\ StartsWithSelect(v_call.arg.sql)
    /\ v_call.arg.sql.kw = "none"
    /\ v_call.arg.sql.col = created_at
    /\ ~v_call.arg.sql.semi
    /\ v_call.out.error = "Forbidden SQL keywords detected."

\* C16: a statement with a LIMIT clause and no ORDER BY clause is never
\* valid, whatever white space sets the keywords off.
C16_LimitNeedsOrderBy ==
    (/\ v_call.called
     /\ v_call.arg.is_str
     /\ v_call.arg.sql.limit # "none"
     /\ v_call.arg.sql.order = "none") =>
        /\ ~v_call.out.raised
        /\ ~v_call.out.is_valid

\* C17: under the default allowlist validate_query rejects a statement
\* whose FROM names the table admission and suggests
\* admission -> json_admissions; and every blocked table with a typo or
\* alias mapping gets a suggestion.
C17_AdmissionBlockedWithSuggestion ==
    al_call.op = "validate_query" =>
        /\ (allowed_tables = default_allowed_tables
             /\ al_call.arg.tbl = admission_tbl) =>
                /\ ~al_call.result.is_valid
                /\ \E g \in al_call.result.suggestions :
                       g[1].name = admission_tbl /\ g[2] = json_admissions
        /\ \A b \in al_call.result.blocked_tables :
               (HasKey(typo_to_canonical, b.name)
                \/ HasKey(generic_to_canonical, b.name)) =>
                   \E g \in al_call.result.suggestions : g[1] = b

\* C18: is_table_allowed of an instance built with a list of tables is
\* true for every name of the list, in either letter case and inside
\* single or double quotes, and false for a name outside the list.
C18_ExplicitListMembership ==
    al_call.op = "is_table_allowed" =>
        (al_call.result <=> al_call.arg.name \in allowed_tables)

\* C19: the allowlist's normalization, typo map then alias map, gives the
\* same name when applied to its own result, for every key of either map.
C19_NormalizationIdempotent ==
    (norm_call.called /\ norm_call.arg.name \in MapKeys) =>
        norm_call.twice = norm_call.once

C19_Witness ==
    /\ norm_call.called
    /\ norm_call.arg = TableArg(N(TRUE, "admission", 2), TRUE, "double")
    /\ norm_call.once = json_admissions
    /\ norm_call.twice = json_admissions

\* C20: on one allowlist instance blocked_operations only grows under
\* is_table_allowed, validate_sql_tables and get_security_info, becomes
\* empty only through reset_blocked_operations, and get_security_info
\* reports data_modification_blocked exactly when it is not empty.
C20_BlockedOperationsCumulative ==
    [][/\ al_call'.op \in {"is_table_allowed", "validate_sql_tables",
                           "validate_query", "get_security_info"} =>
             blocked_operations \subseteq blocked_operations'
       /\ (blocked_operations # {} /\ blocked_operations' = {}) =>
             al_call'.op = "reset_blocked_operations"
       /\ al_call'.op = "get_security_info" =>
             (al_call'.result.data_modification_blocked
                <=> blocked_operations' # {})]_vars

C20_Witness ==
    /\ al_call.op = "get_security_info"
    /\ al_call.result.data_modification_blocked
    /\ Cardinality(blocked_operations) >= 2
    /\ al_calls = MaxCalls

\* C23: in every response success=true goes with validation.is_valid=true
\* and success=false with validation.is_valid=false.
C23_SuccessIffValid ==
    (pc = "done" /\ ~raised) => (resp.success <=> resp.validation.is_valid)

\* C26: a generated statement on a canonical allowed table reaches the
\* allowlist check and the validator with the same table name, and the
\* allowlist does not block it.
C26_CanonicalNamesSurvive ==
    (/\ Len(gen_log) >= 1
     /\ gen_log[1].sql.tbl \in default_allowed_tables
     /\ StartsWithSelect(gen_log[1].sql)
     /\ security # "unset") =>
        /\ security = "pass"
        /\ pc = "validate" => sql.tbl = gen_log[1].sql.tbl

\* C29: on a successful request the statement the datastore executed is
\* the statement the validator dry-ran and probed and is the sql of the
\* response.
C29_ExecutedIsValidatedIsReported ==
    (pc = "done" /\ resp.success) =>
        \A e \in db_log :
            e.kind = "exec" =>
                /\ e.sql = resp.sql
                /\ \E v \in db_log : v.kind = "probe" /\ v.sql = e.sql

\* C30: the trace a request started is ended when the request is over,
\* on every path, so no trace stays active between requests.
C30_TracesEnded == pc = "done" => active_traces = {}

\* C27: validate_sql reports the earliest failing check in the order
\* SELECT, forbidden keyword, statement separator, LIMIT without ORDER BY,
\* datastore; when one of the first four fails nothing reaches the
\* datastore, and the dry run is sent only when all four pass.
C27_ChecksInOrder ==
    (v_call.called /\ v_call.arg.is_str) =>
        LET n    == normalize_table_typos(v_call.arg.sql)
            out  == v_call.out
            c1   == ~StartsWithSelect(n)
            c2   == Words(n) \cap FORBIDDEN_KEYWORDS # {}
            c3   == n.semi
            c4   == n.limit = "space" /\ n.order # "space"
        IN  /\ c1 => out.error = "Only SELECT queries are allowed."
            /\ (~c1 /\ c2) => out.error = "Forbidden SQL keywords detected."
            /\ (~c1 /\ ~c2 /\ c3) =>
                   out.error = "Multiple SQL statements are not allowed."
            /\ (~c1 /\ ~c2 /\ ~c3 /\ c4) =>
                   out.error = "LIMIT without ORDER BY is not allowed."
            /\ (c1 \/ c2 \/ c3 \/ c4) => (~out.is_valid /\ out.sent = {})
            /\ ~(c1 \/ c2 \/ c3 \/ c4) =>
                   /\ [kind |-> "explain", sql |-> n] \in out.sent
                   /\ out.error \notin
                        {"Only SELECT queries are allowed.",
                         "Forbidden SQL keywords detected.",
                         "Multiple SQL statements are not allowed.",
                         "LIMIT without ORDER BY is not allowed."}

\* a statement that fails checks 1, 2, 3 and 4 at once was rejected
C27_Witness ==
    /\ v_call.called
    /\ v_call.arg.is_str
    /\ v_call.arg.sql.head = "update"
    /\ v_call.arg.sql.kw = "replace"
    /\ v_call.arg.sql.semi
    /\ v_call.arg.sql.limit = "space"
    /\ v_call.arg.sql.order = "none"
    /\ v_call.out.error = "Only SELECT queries are allowed."
    /\ v_call.out.sent = {}

\* C28: every statement that validate_sql rejects on its check 1, 2 or 3
\* (not a SELECT, a forbidden keyword, a statement separator) makes
\* execute_sql raise before anything is sent to the datastore.
C28_PreflightCoversValidator ==
    e_call.called =>
        LET n == normalize_table_typos(e_call.arg)
        IN  (\/ ~StartsWithSelect(n)
             \/ Words(n) \cap FORBIDDEN_KEYWORDS # {}
             \/ n.semi) =>
                (e_call.out.raised /\ e_call.out.sent = {})

\* C22: the statement _extract_and_clean_sql returns holds no separator
\* and no code fence, is at most max_sql_length characters long, and when
\* the text held a separator it is taken from the text before the first
\* one.
C22_CleanStatement ==
    x_call.called =>
        /\ ~Contains(x_call.out, SEPARATOR)
        /\ ~Contains(x_call.out, FENCE)
        /\ Len(x_call.out) <= x_call.max_sql_length
        /\ Contains(x_call.raw, SEPARATOR) =>
               Contains(BeforeSeparator(x_call.raw), x_call.out)

\* C24: get_sql_agent returns the same instance on every call, and called
\* with a config it returns an agent whose default_top_k and
\* max_sql_length are the values of that config, whatever was called
\* before.
C24_SingletonHonoursConfig ==
    ag_call.op = "get_sql_agent" =>
        /\ ag_call.returned.id = 1
        /\ \A item \in ag_call.config :
              /\ item[1] = "top_k" =>
                     ag_call.returned.default_top_k = item[2]
              /\ item[1] = "max_sql_length" =>
                     ag_call.returned.max_sql_length = item[2]

\* C25: on an agent _success_count + _error_count is the number of
\* execute calls and the length of _execution_times; a call does not
\* raise and returns success with a result and no error, or failure with
\* no result and the exception text; a failed execution leaves
\* _sql_generation_count as it was.
C25_MetricsCountCalls ==
    sql_agent # NoAgent =>
        /\ sql_agent.success_count + sql_agent.error_count = ag_calls
        /\ Len(sql_agent.execution_times) = ag_calls
        /\ ag_call.op = "execute" =>
              /\ ~ag_call.raised
              /\ \/ /\ ag_call.success
                    /\ ag_call.result # NoResult
                    /\ ag_call.error = "None"
                 \/ /\ ~ag_call.success
                    /\ ag_call.result = NoResult
                    /\ ag_call.error # "None"
              /\ ~ag_call.success =>
                     sql_agent.sql_generation_count =
                         ag_call.generation_count_before

\* a failed execution after a successful one on the same agent
C25_Witness ==
    /\ sql_agent # NoAgent
    /\ ag_call.op = "execute"
    /\ ~ag_call.success
    /\ ag_call.error = "unable to open database file"
    /\ sql_agent.success_count >= 1
    /\ sql_agent.error_count >= 1
    /\ sql_agent.sql_generation_count >= 1

\* C21: each retrieval function returns at least min(top_k, number of
\* schema documents) snippets, whatever the question, the embedding
\* backend and the entity filters.
C21_EnoughSnippets ==
    r_call.op # "none" =>
        LET total == Len(build_schema_docs(r_call.tables))
        IN  Len(r_call.out.docs) >=
                (IF r_call.top_k < total THEN r_call.top_k ELSE total)

====
